---- MODULE Spec2Model ----
(***************************************************************************)
(* Agent registry, runtime session cache and conversation ledger of the    *)
(* Pydantic AI Agent Framework (src/app.py, src/utils/agent_manager.py,    *)
(* src/utils/database.py, src/utils/config_manager.py).                    *)
(*                                                                         *)
(* Scheduling.  Every handler is an `async def` run by one asyncio event   *)
(* loop.  A handler gives up the loop only where an await really suspends. *)
(* The AgentManager and Database coroutines contain no suspending await    *)
(* (dict operations, blocking file I/O, blocking sqlite3 calls), so        *)
(* awaiting them runs them to completion inside the caller's step.  The    *)
(* only suspension point is `await agent.run(message)` (app.py:249).       *)
(* Hence every CRUD handler is one action and chat_with_agent is two:      *)
(* the part up to the suspension and the part after it.                    *)
(*                                                                         *)
(* Python dicts are functions whose DOMAIN is the set of keys present.     *)
(*                                                                         *)
(* Specifications.  Spec is the whole service.  SpecCache and SpecLedger   *)
(* are Spec with the environment restricted: SpecCache submits the drafts  *)
(* of CacheDrafts to storage that works and stops the clock; SpecLedger    *)
(* creates usable agents only, stops the clock and lets every statement of *)
(* a ledger write fail; SpecStore sends no chat, stops the clock, lets the  *)
(* file operations of the registry fail and restarts the service;          *)
(* SpecClock is the registry alone under a running clock; SpecProviders is *)
(* the provider catalog and the runtime cache under a changing             *)
(* environment; SpecRetention is the ledger under a running clock, with    *)
(* exchanges that age and are purged and appends that can fail;            *)
(* SpecHistory reads the ledger back under a running clock; SpecArchive    *)
(* deletes definitions and reads their exchanges back; SpecTools builds    *)
(* handles from definitions with tool lists; SpecOverlap runs store        *)
(* requests while chat requests are suspended; SpecConfig reads and        *)
(* writes the settings document of the ConfigManager.                      *)
(***************************************************************************)
EXTENDS Integers, Sequences, FiniteSets, TLC

\* ---------------------------------------------------------------- bounds
MaxAgents == 1        \* identities that uuid4 hands out in one run
MaxSends == 2         \* chat requests that reach agent.run in one run
MaxTime == 1          \* readings of the wall clock
NumProcs == 2         \* chat requests in flight at the same time
MaxLogs == 1          \* rows of system_logs
MaxDepth == 2         \* nested calls of get_agent_templates before RecursionError
MaxKeys == 2          \* segments of a dot-separated configuration key

AgentIds == 1..MaxAgents
Procs == 1..NumProcs
Days == {0, 1}         \* retention periods handed to cleanup_old_data
Limits == {1, 2}       \* limits handed to get_conversation_history

\* ------------------------------------------------------- input alphabets
Names == {"", "A"}
Prompts == {"", "p1", "p2"}
Providers == {"", "openai", "local"}
ModelNames == {"", "gpt-4"}
Temperatures == {-1, 7, 21}     \* in tenths: -0.1, 0.7, 2.1
TokenLimits == {0, 1000}
\* tool lists: "shell" is a name the registry does not know
ToolLists == {<<>>, <<"calculator">>, <<"shell">>, <<"file_reader", "shell", "web_search">>,
              <<"web_search", "calculator">>}
DefaultTemperature == 7        \* app.py:57, 0.7 in tenths
DefaultMaxTokens == 1000        \* app.py:58
Messages == {"hello"}
Responses == {"R1"}
NoUsage == [present |-> FALSE, total_tokens |-> 0]
Usages == {NoUsage, [present |-> TRUE, total_tokens |-> 3]}

\* AgentConfig (app.py:50-60): the drafts the API accepts.  pydantic checks
\* the types of the fields and nothing else.  (description is left out.)
AgentConfig ==
    [name : Names, system_prompt : Prompts, model_provider : Providers, model_name : ModelNames,
     temperature : Temperatures, max_tokens : TokenLimits, tools : ToolLists, enabled : BOOLEAN]

\* ---------------------------------------------------- settings document
\* The settings document is a tree of mappings: a key is a sequence of
\* segments (key.split('.')), and the document gives for every key the
\* scalar stored there, Mapping when a dict is stored there, or Absent.
\* The root is a dict.  A key is present only below keys holding a Mapping.
ConfigKeys == {"app", "debug"}
ConfigValues == {"on", "off"}
Absent == "<absent>"
Mapping == "<dict>"
KeyPaths == UNION {[1..n -> ConfigKeys] : n \in 1..MaxKeys}

\* config_manager.py:36-43: default_config, cut down to app.debug
DefaultConfig ==
    [key \in KeyPaths |->
        IF key = <<"app">> THEN Mapping ELSE IF key = <<"app", "debug">> THEN "off" ELSE Absent]

VARIABLES
    now,                  \* datetime.now() / CURRENT_TIMESTAMP
    next_uuid,            \* uuid.uuid4(): the next identity never used before
    agents_cache,         \* AgentManager.agents_cache : id -> definition
    agent_files,          \* agents/<id>.json on disk   : id -> definition
    active_agents,        \* app.active_agents          : id -> runtime handle
    conversation_history, \* app.conversation_history   : id -> list of messages
    next_handle,          \* object identity of the next Agent(...) constructed
    db_conn,              \* what the shared sqlite3 connection sees (open transaction included)
    db_disk,              \* what is committed in data/agents.db
    pc,                   \* per chat request: "idle" or "run" (suspended in agent.run)
    frame,                \* per chat request: the locals of chat_with_agent
    response,             \* the response most recently returned by a handler
    sends,                \* history: chat requests that have reached agent.run
    built,                \* history: successful Agent(...) constructions per identity
    deleted,              \* history: identities whose delete succeeded
    purged,               \* history: cleanup_old_data has run
    template_files,       \* agents/templates/template_<n>.json : n -> template
    environ,              \* os.environ : name -> value
    config,               \* ConfigManager.config : the settings document in memory
    config_file           \* config/settings.yaml : the settings document on disk

vars == <<now, next_uuid, agents_cache, agent_files, active_agents, conversation_history,
          next_handle, db_conn, db_disk, pc, frame, response, sends, built, deleted, purged,
          template_files, environ, config, config_file>>

storeVars == <<next_uuid, agents_cache, agent_files>>
cacheVars == <<active_agents, next_handle, built>>
dbVars == <<db_conn, db_disk, purged>>
chatVars == <<pc, frame, sends>>
hostVars == <<template_files, environ, config, config_file>>
settingsVars == <<config, config_file>>

\* ------------------------------------------------------------- dict helpers
Put(d, k, v) == [x \in DOMAIN d \cup {k} |-> IF x = k THEN v ELSE d[x]]
Del(d, k) == [x \in DOMAIN d \ {k} |-> d[x]]
EmptyDict == [x \in {} |-> 0]

\* ------------------------------------------------------------------ Init
EmptyDb == [conversations |-> <<>>, conv_seq |-> 0, agent_stats |-> EmptyDict, system_logs |-> <<>>]
NoHandle ==
    [serial |-> 0, system_prompt |-> "", model_provider |-> "", model_name |-> "",
     temperature |-> 0, max_tokens |-> 0, tools |-> <<>>]
NoMessage == [role |-> "", content |-> "", timestamp |-> 0, usage |-> NoUsage]
NoFrame == [agent_id |-> 0, message |-> "", agent |-> NoHandle, user_message |-> NoMessage]
NoDraft ==
    [name |-> "", system_prompt |-> "", model_provider |-> "", model_name |-> "",
     temperature |-> 0, max_tokens |-> 0, tools |-> <<>>, enabled |-> FALSE]
\* a response: the handler (op) and identity (id) it answers, success or
\* failure (ok), the error kind of a failure, the body of a chat answer, the
\* items of a list answer (listing: in no order, rows: in the order
\* returned); draft is history: the draft that a successful create or update
\* was called with
Response(op, id, ok, error, data, usage) ==
    [op |-> op, id |-> id, ok |-> ok, error |-> error, data |-> data, usage |-> usage,
     listing |-> {}, rows |-> <<>>, draft |-> NoDraft]
Ok(op, id) == Response(op, id, TRUE, "none", "", NoUsage)
Stored(op, id, draft) == [Ok(op, id) EXCEPT !.draft = draft]
Listed(op, listing) == [Ok(op, 0) EXCEPT !.listing = listing]
Failed(op, id, error) == Response(op, id, FALSE, error, "", NoUsage)
NoResponse == Ok("none", 0)

Init ==
    /\ now = 0
    /\ next_uuid = 1
    /\ agents_cache = EmptyDict
    /\ agent_files = EmptyDict
    /\ active_agents = EmptyDict
    /\ conversation_history = EmptyDict
    /\ next_handle = 1
    /\ db_conn = EmptyDb
    /\ db_disk = EmptyDb
    /\ pc = [p \in Procs |-> "idle"]
    /\ frame = [p \in Procs |-> NoFrame]
    /\ response = NoResponse
    /\ sends = 0
    /\ built = [i \in AgentIds |-> 0]
    /\ deleted = {}
    /\ purged = FALSE
    /\ template_files = EmptyDict
    /\ environ = EmptyDict
    /\ config = DefaultConfig
    /\ config_file = DefaultConfig

\* the wall clock advances
Tick ==
    /\ now < MaxTime
    /\ now' = now + 1
    /\ UNCHANGED <<storeVars, cacheVars, dbVars, chatVars, hostVars, conversation_history, response,
                   deleted>>

\* ------------------------------------------------- Agent Definition Store
\* the record create_agent / update_agent store: the draft plus its metadata
Definition(draft, id, created_at, updated_at) ==
    [id |-> id,
     name |-> draft.name,
     system_prompt |-> draft.system_prompt,
     model_provider |-> draft.model_provider,
     model_name |-> draft.model_name,
     temperature |-> draft.temperature,
     max_tokens |-> draft.max_tokens,
     tools |-> draft.tools,
     enabled |-> draft.enabled,
     created_at |-> created_at,
     updated_at |-> updated_at]

\* the draft part of a stored definition (what toggle_agent passes to update_agent)
DraftOf(def) ==
    [name |-> def.name, system_prompt |-> def.system_prompt, model_provider |-> def.model_provider,
     model_name |-> def.model_name, temperature |-> def.temperature, max_tokens |-> def.max_tokens,
     tools |-> def.tools, enabled |-> def.enabled]

\* an identity source that hands out the previous identity once more
uuid_repeated == IF next_uuid > 1 THEN next_uuid - 1 ELSE next_uuid

\* agent_manager.py:53: str(uuid.uuid4()), an identity never handed out before
uuid4 == next_uuid

\* POST /api/agents; ids are the identities that uuid4 hands out in this run
create_agent(ids, draft, write_ok) ==
    /\ next_uuid \in ids
    /\ LET agent_id == uuid4
           agent_config == Definition(draft, agent_id, now, now)
       IN /\ next_uuid' = next_uuid + 1
          /\ IF write_ok
             THEN /\ agent_files' = Put(agent_files, agent_id, agent_config)
                  /\ agents_cache' = Put(agents_cache, agent_id, agent_config)
             ELSE UNCHANGED <<agent_files, agents_cache>>
          /\ response' = IF write_ok THEN Stored("create", agent_id, draft)
                                     ELSE Failed("create", agent_id, "StorageError")
    /\ UNCHANGED <<now, hostVars, cacheVars, dbVars, chatVars, conversation_history, deleted>>

\* an update that copies the fields of the draft one by one and stops before
\* the name: the stored record mixes the draft with what was stored before
MergedConfig(original_config, draft) ==
    [Definition(draft, original_config.id, original_config.created_at, now)
        EXCEPT !.name = original_config.name]

\* agent_manager.py:77-82: the record update_agent stores: the whole draft,
\* with id and created_at of the stored definition and a new updated_at
UpdatedConfig(original_config, draft) ==
    Definition(draft, original_config.id, original_config.created_at, now)

\* an update_agent without the test of agent_manager.py:74: the draft is
\* stored under the identity whether or not a definition is there
update_agent_upsert(agent_id, draft, write_ok) ==
    /\ LET created_at == IF agent_id \in DOMAIN agents_cache
                         THEN agents_cache[agent_id].created_at ELSE now
           agent_config == Definition(draft, agent_id, created_at, now)
       IN IF write_ok
          THEN /\ agent_files' = Put(agent_files, agent_id, agent_config)
               /\ agents_cache' = Put(agents_cache, agent_id, agent_config)
               /\ response' = Stored("update", agent_id, draft)
          ELSE /\ response' = Failed("update", agent_id, "StorageError")
               /\ UNCHANGED <<agent_files, agents_cache>>
    /\ UNCHANGED <<now, hostVars, next_uuid, cacheVars, dbVars, chatVars, conversation_history, deleted>>

\* an update_agent that waits for a lock which chat_with_agent holds across
\* agent.run: it runs only while no request is suspended
update_agent_exclusive(agent_id, draft, write_ok) ==
    /\ \A p \in Procs : pc[p] = "idle"
    /\ IF agent_id \notin DOMAIN agents_cache
       THEN /\ response' = Failed("update", agent_id, "NotFound")
            /\ UNCHANGED <<agent_files, agents_cache>>
       ELSE LET original_config == agents_cache[agent_id]
                agent_config == UpdatedConfig(original_config, draft)
            IN IF write_ok
               THEN /\ agent_files' = Put(agent_files, agent_id, agent_config)
                    /\ agents_cache' = Put(agents_cache, agent_id, agent_config)
                    /\ response' = Stored("update", agent_id, draft)
               ELSE /\ response' = Failed("update", agent_id, "StorageError")
                    /\ UNCHANGED <<agent_files, agents_cache>>
    /\ UNCHANGED <<now, hostVars, next_uuid, cacheVars, dbVars, chatVars, conversation_history, deleted>>

\* PUT /api/agents/{agent_id}
update_agent(agent_id, draft, write_ok) ==
    /\ IF agent_id \notin DOMAIN agents_cache
       THEN /\ response' = Failed("update", agent_id, "NotFound")
            /\ UNCHANGED <<agent_files, agents_cache>>
       ELSE LET original_config == agents_cache[agent_id]
                agent_config == UpdatedConfig(original_config, draft)
            IN IF write_ok
               THEN /\ agent_files' = Put(agent_files, agent_id, agent_config)
                    /\ agents_cache' = Put(agents_cache, agent_id, agent_config)
                    /\ response' = Stored("update", agent_id, draft)
               ELSE /\ response' = Failed("update", agent_id, "StorageError")
                    /\ UNCHANGED <<agent_files, agents_cache>>
    /\ UNCHANGED <<now, hostVars, next_uuid, cacheVars, dbVars, chatVars, conversation_history, deleted>>

\* delete_agent without app.py:185-186: the handle stays cached
KeepOnDelete(cache, agent_id) == cache

\* app.py:185-186: the cache entry that delete_agent discards
EvictOnDelete(cache, agent_id) == Del(cache, agent_id)

\* a delete_agent that cascades to the ledger: the exchanges and the stats
\* row of the identity are deleted with its definition
delete_agent_cascading(agent_id, unlink_ok) ==
    /\ IF agent_id \in DOMAIN agents_cache /\ unlink_ok
       THEN /\ agent_files' = Del(agent_files, agent_id)
            /\ agents_cache' = Del(agents_cache, agent_id)
            /\ active_agents' = EvictOnDelete(active_agents, agent_id)
            /\ conversation_history' = Del(conversation_history, agent_id)
            /\ deleted' = deleted \cup {agent_id}
            /\ response' = Ok("delete", agent_id)
            /\ LET swept == [db_conn EXCEPT
                                !.conversations = SelectSeq(db_conn.conversations,
                                                            LAMBDA r : r.agent_id # agent_id),
                                !.agent_stats = Del(db_conn.agent_stats, agent_id)]
               IN /\ db_conn' = swept
                  /\ db_disk' = swept
       ELSE /\ response' = Failed("delete", agent_id,
                               IF agent_id \in DOMAIN agents_cache THEN "StorageError" ELSE "NotFound")
            /\ UNCHANGED <<agent_files, agents_cache, active_agents, conversation_history, deleted,
                           db_conn, db_disk>>
    /\ UNCHANGED <<now, hostVars, next_uuid, next_handle, built, purged, chatVars>>

\* DELETE /api/agents/{agent_id}
delete_agent(agent_id, unlink_ok) ==
    /\ IF agent_id \in DOMAIN agents_cache /\ unlink_ok
       THEN /\ agent_files' = Del(agent_files, agent_id)
            /\ agents_cache' = Del(agents_cache, agent_id)
            /\ active_agents' = EvictOnDelete(active_agents, agent_id)
            /\ conversation_history' = Del(conversation_history, agent_id)
            /\ deleted' = deleted \cup {agent_id}
            /\ response' = Ok("delete", agent_id)
       ELSE /\ response' = Failed("delete", agent_id,
                               IF agent_id \in DOMAIN agents_cache THEN "StorageError" ELSE "NotFound")
            /\ UNCHANGED <<agent_files, agents_cache, active_agents, conversation_history, deleted>>
    /\ UNCHANGED <<now, hostVars, next_uuid, next_handle, built, dbVars, chatVars>>

\* a toggle_agent that switches the agent off whatever the flag was
toggle_agent_disabling(agent_id, write_ok) ==
    /\ IF agent_id \notin DOMAIN agents_cache
       THEN /\ response' = Failed("toggle", agent_id, "NotFound")
            /\ UNCHANGED <<agent_files, agents_cache>>
       ELSE LET original_config == agents_cache[agent_id]
                flipped == [DraftOf(original_config) EXCEPT !.enabled = FALSE]
                agent_config == Definition(flipped, agent_id, original_config.created_at, now)
            IN /\ agents_cache' = Put(agents_cache, agent_id, agent_config)
               /\ agent_files' = IF write_ok THEN Put(agent_files, agent_id, agent_config) ELSE agent_files
               /\ response' = IF write_ok THEN Ok("toggle", agent_id) ELSE Failed("toggle", agent_id, "StorageError")
    /\ UNCHANGED <<now, hostVars, next_uuid, cacheVars, dbVars, chatVars, conversation_history, deleted>>

\* POST /api/agents/{agent_id}/toggle.  get_agent returns the cached dict
\* itself, so the flip and update_agent's metadata stamp edit the cached
\* definition in place, before the file is written.
toggle_agent(agent_id, write_ok) ==
    /\ IF agent_id \notin DOMAIN agents_cache
       THEN /\ response' = Failed("toggle", agent_id, "NotFound")
            /\ UNCHANGED <<agent_files, agents_cache>>
       ELSE LET original_config == agents_cache[agent_id]
                flipped == [DraftOf(original_config) EXCEPT !.enabled = ~original_config.enabled]
                agent_config == Definition(flipped, agent_id, original_config.created_at, now)
            IN /\ agents_cache' = Put(agents_cache, agent_id, agent_config)
               /\ agent_files' = IF write_ok THEN Put(agent_files, agent_id, agent_config) ELSE agent_files
               /\ response' = IF write_ok THEN Ok("toggle", agent_id) ELSE Failed("toggle", agent_id, "StorageError")
    /\ UNCHANGED <<now, hostVars, next_uuid, cacheVars, dbVars, chatVars, conversation_history, deleted>>

\* agent_manager.py:27-41: the dict a fresh AgentManager loads from agents/*.json,
\* keyed by the file stems (no agent file is named template_*)
load_agents(files) == [agent_id \in DOMAIN files |-> files[agent_id]]

\* app.py:70-85: the service starts again: a new process with empty dicts
\* and a new connection loads the definitions from disk
startup_event ==
    /\ agents_cache' = load_agents(agent_files)
    /\ active_agents' = EmptyDict
    /\ conversation_history' = EmptyDict
    /\ db_conn' = db_disk
    /\ pc' = [p \in Procs |-> "idle"]
    /\ frame' = [p \in Procs |-> NoFrame]
    /\ response' = Ok("startup", 0)
    /\ UNCHANGED <<now, hostVars, next_uuid, agent_files, next_handle, built, db_disk, purged, sends,
                   deleted>>

\* ------------------------------------------------------------- templates
\* agent_manager.py:215-260: the names of default_templates, in order
DefaultTemplates == <<"General Assistant", "Code Assistant", "Research Assistant", "Math Tutor">>

\* a _create_default_templates that writes its files somewhere else
create_no_templates(files) == files

\* agent_manager.py:213-265: write default_templates[i] to template_{i+1}.json
create_default_templates(files) ==
    [n \in DOMAIN files \cup DOMAIN DefaultTemplates |->
        IF n \in DOMAIN DefaultTemplates THEN [name |-> DefaultTemplates[n]] ELSE files[n]]

\* agent_manager.py:197-204: the templates loaded from the directory, each
\* with the stem of its file as template_id
LoadTemplates(files) == {[template_id |-> n, name |-> files[n].name] : n \in DOMAIN files}

\* agent_manager.py:192-211: the directory a call leaves behind and the list
\* it returns; the call is run again after seeding, and a call nested deeper
\* than depth allows does not return
RECURSIVE get_templates(_, _)
get_templates(files, depth) ==
    IF LoadTemplates(files) # {}
    THEN [files |-> files, templates |-> LoadTemplates(files), returned |-> TRUE]
    ELSE IF depth = 0
    THEN [files |-> files, templates |-> {}, returned |-> FALSE]
    ELSE get_templates(create_default_templates(files), depth - 1)

\* GET /api/templates, app.py:317-324
get_agent_templates ==
    /\ LET call == get_templates(template_files, MaxDepth)
       IN /\ template_files' = call.files
          /\ response' = IF call.returned THEN Listed("templates", call.templates)
                                           ELSE Failed("templates", 0, "RecursionError")
    /\ UNCHANGED <<now, environ, settingsVars, storeVars, cacheVars, dbVars, chatVars, conversation_history, deleted>>

\* ------------------------------------------------------ Provider Catalog
\* config_manager.py:46-70: models.providers of the default configuration
DefaultProviders ==
    [provider \in {"openai", "anthropic", "gemini"} |->
        [api_key_env |-> CASE provider = "openai" -> "OPENAI_API_KEY"
                           [] provider = "anthropic" -> "ANTHROPIC_API_KEY"
                           [] OTHER -> "GEMINI_API_KEY",
         models |-> CASE provider = "openai" -> {"gpt-3.5-turbo", "gpt-4", "gpt-4-turbo-preview"}
                      [] provider = "anthropic" -> {"claude-3-haiku-20240307", "claude-3-sonnet-20240229",
                                                    "claude-3-opus-20240229"}
                      [] OTHER -> {"gemini-pro", "gemini-pro-vision"}]]

\* the values an environment variable is set to: empty, or a key
EnvValues == {"", "sk-1"}

\* the environment of the process changes: a variable is set
putenv(key, value) ==
    /\ environ' = Put(environ, key, value)
    /\ UNCHANGED <<now, template_files, settingsVars, storeVars, cacheVars, dbVars, chatVars, conversation_history,
                   response, deleted>>

\* the environment of the process changes: a variable is removed
unsetenv(key) ==
    /\ key \in DOMAIN environ
    /\ environ' = Del(environ, key)
    /\ UNCHANGED <<now, template_files, settingsVars, storeVars, cacheVars, dbVars, chatVars, conversation_history,
                   response, deleted>>

\* config_manager.py:132-142: the provider has an entry, the entry names an
\* environment variable, and os.getenv of that name is not None
is_provider_configured(providers, env, provider) ==
    /\ provider \in DOMAIN providers
    /\ "api_key_env" \in DOMAIN providers[provider]
    /\ providers[provider].api_key_env # ""
    /\ providers[provider].api_key_env \in DOMAIN env

\* settings.py:16-25: provider -> models, for the configured providers
available_models(providers, env) ==
    [provider \in {q \in DOMAIN providers : is_provider_configured(providers, env, q)} |->
        providers[provider].models]

\* GET /api/models, app.py:327-333
get_available_models ==
    /\ response' = Listed("models", DOMAIN available_models(DefaultProviders, environ))
    /\ UNCHANGED <<now, hostVars, storeVars, cacheVars, dbVars, chatVars, conversation_history, deleted>>

\* ---------------------------------------------------- Conversation Ledger
\* the statement outcomes of one save_conversation: every statement works,
\* or the INSERT, the stats statements or the COMMIT raises
Faults == {"none", "insert", "stats", "commit"}

\* database.py:83-95: INSERT INTO conversations
InsertConversation(db, agent_id, user_message, agent_message) ==
    [db EXCEPT
       !.conv_seq = db.conv_seq + 1,
       !.conversations = Append(db.conversations,
           [id |-> db.conv_seq + 1,
            agent_id |-> agent_id,
            user_message |-> user_message.content,
            agent_response |-> agent_message.content,
            user_message_timestamp |-> user_message.timestamp,
            agent_response_timestamp |-> agent_message.timestamp,
            usage_data |-> agent_message.usage,
            created_at |-> now])]

\* database.py:105-133
update_agent_stats(db, agent_id, usage_data) ==
    LET tokens_used == IF usage_data.present THEN usage_data.total_tokens ELSE 0
    IN IF agent_id \in DOMAIN db.agent_stats
       THEN [db EXCEPT !.agent_stats = Put(db.agent_stats, agent_id,
                [total_conversations |-> db.agent_stats[agent_id].total_conversations + 1,
                 total_tokens_used |-> db.agent_stats[agent_id].total_tokens_used + tokens_used,
                 last_used |-> now])]
       ELSE [db EXCEPT !.agent_stats = Put(db.agent_stats, agent_id,
                [total_conversations |-> 1,
                 total_tokens_used |-> tokens_used,
                 last_used |-> now])]

\* database.py:78-103.  The statements run inside the connection's open
\* transaction; the except clause prints and returns, it does not roll back.
\* The result is the connection's view and the committed database.
save_conversation(conn, disk, agent_id, user_message, agent_message, fault) ==
    LET inserted == InsertConversation(conn, agent_id, user_message, agent_message)
        counted == update_agent_stats(inserted, agent_id, agent_message.usage)
    IN CASE fault = "insert" -> [conn |-> conn, disk |-> disk]
         [] fault = "stats" -> [conn |-> inserted, disk |-> disk]
         [] fault = "commit" -> [conn |-> counted, disk |-> disk]
         [] OTHER -> [conn |-> counted, disk |-> counted]

\* database.py:228-245
log_system_event ==
    /\ Len(db_conn.system_logs) < MaxLogs
    /\ LET logged == [db_conn EXCEPT !.system_logs = Append(db_conn.system_logs, [timestamp |-> now])]
       IN /\ db_conn' = logged
          /\ db_disk' = logged
    /\ response' = Ok("log", 0)
    /\ UNCHANGED <<now, hostVars, storeVars, cacheVars, chatVars, conversation_history, deleted, purged>>

\* a cleanup_old_data whose DELETE compares with <=: rows stamped at the
\* cutoff itself go too
cleanup_through_cutoff(days) ==
    /\ LET cutoff == now - days
           swept == [db_conn EXCEPT
                       !.conversations = SelectSeq(db_conn.conversations, LAMBDA r : ~(r.created_at <= cutoff)),
                       !.system_logs = SelectSeq(db_conn.system_logs, LAMBDA r : ~(r.timestamp <= cutoff))]
       IN /\ db_conn' = swept
          /\ db_disk' = swept
    /\ purged' = TRUE
    /\ response' = Ok("cleanup", 0)
    /\ UNCHANGED <<now, hostVars, storeVars, cacheVars, chatVars, conversation_history, deleted>>

\* database.py:276-298
cleanup_old_data(days) ==
    /\ LET cutoff == now - days
           swept == [db_conn EXCEPT
                       !.conversations = SelectSeq(db_conn.conversations, LAMBDA r : ~(r.created_at < cutoff)),
                       !.system_logs = SelectSeq(db_conn.system_logs, LAMBDA r : ~(r.timestamp < cutoff))]
       IN /\ db_conn' = swept
          /\ db_disk' = swept
    /\ purged' = TRUE
    /\ response' = Ok("cleanup", 0)
    /\ UNCHANGED <<now, hostVars, storeVars, cacheVars, chatVars, conversation_history, deleted>>

\* database.py:140-145: the WHERE agent_id = ? of get_conversation_history
RowsOf(db, agent_id) == SelectSeq(db.conversations, LAMBDA r : r.agent_id = agent_id)

\* database.py:140-145: the orders in which ORDER BY created_at DESC can
\* return these rows: created_at never increases along the result, and SQL
\* leaves the order of rows with equal created_at open
NewestFirst(rows) ==
    LET n == Len(rows)
        orders == {f \in [1..n -> 1..n] :
                      /\ \A i, j \in 1..n : f[i] = f[j] => i = j
                      /\ \A i, j \in 1..n : i < j => rows[f[i]].created_at >= rows[f[j]].created_at}
    IN {[i \in 1..n |-> rows[f[i]]] : f \in orders}

\* database.py:149-160: the dict returned for a row
HistoryEntry(row) ==
    [id |-> row.id, user_message |-> row.user_message, agent_response |-> row.agent_response,
     user_timestamp |-> row.user_message_timestamp, agent_timestamp |-> row.agent_response_timestamp,
     usage |-> row.usage_data, created_at |-> row.created_at]

\* GET /api/agents/{agent_id}/history, app.py:273-280, database.py:135-165
get_conversation_history(agent_id, limit) ==
    /\ \E ordered \in NewestFirst(RowsOf(db_conn, agent_id)) :
          LET rows == SubSeq(ordered, 1, IF limit < Len(ordered) THEN limit ELSE Len(ordered))
          IN response' = [Ok("history", agent_id) EXCEPT
                             !.rows = [i \in DOMAIN rows |-> HistoryEntry(rows[i])]]
    /\ UNCHANGED <<now, hostVars, storeVars, cacheVars, dbVars, chatVars, conversation_history, deleted>>

\* ------------------------------------------------------- ConfigManager
\* what the document holds at a key; the root holds a dict, and there is
\* nothing below the longest keys
NodeAt(doc, at) == IF at = <<>> THEN Mapping ELSE IF at \in KeyPaths THEN doc[at] ELSE Absent

\* a Python value read from the document at a key: a scalar, or a dict with
\* its items (the keys present below, relative to it, with what they hold)
Leaf(value) == [value |-> value, items |-> {}]
ValueAt(doc, at) ==
    IF NodeAt(doc, at) = Mapping
    THEN [value |-> Mapping,
          items |-> {<<SubSeq(key, Len(at) + 1, Len(key)), doc[key]>> :
                        key \in {k \in KeyPaths : /\ Len(k) > Len(at)
                                                   /\ SubSeq(k, 1, Len(at)) = at
                                                   /\ doc[k] # Absent}}]
    ELSE Leaf(NodeAt(doc, at))

\* config_manager.py:103-109: the loop of get, from the value held at `at`
RECURSIVE get_from(_, _, _, _)
get_from(doc, at, keys, default) ==
    IF keys = <<>>
    THEN ValueAt(doc, at)
    ELSE LET k == Head(keys)
         IN IF NodeAt(doc, at) = Mapping /\ NodeAt(doc, Append(at, k)) # Absent
            THEN get_from(doc, Append(at, k), Tail(keys), default)
            ELSE Leaf(default)

\* config_manager.py:98-109
get(doc, key, default) == get_from(doc, <<>>, key, default)

\* config[k] = value on a dict: the key holds the value, what was below it
\* is gone
Assign(doc, at, value) ==
    [key \in KeyPaths |->
        IF key = at THEN value
        ELSE IF Len(key) > Len(at) /\ SubSeq(key, 1, Len(at)) = at THEN Absent
        ELSE doc[key]]

\* config_manager.py:116-121: the loop of set and the final assignment, from
\* the value held at `at`.  `k not in config`, `config[k] = {}` and
\* `config[keys[-1]] = value` raise TypeError when config is not a dict (a
\* number, a bool, None, a string, a list).
RECURSIVE set_from(_, _, _, _)
set_from(doc, at, keys, value) ==
    LET k == Head(keys)
    IN IF NodeAt(doc, at) # Mapping
       THEN [raised |-> TRUE, doc |-> doc]
       ELSE IF Len(keys) = 1
       THEN [raised |-> FALSE, doc |-> Assign(doc, Append(at, k), value)]
       ELSE set_from(IF NodeAt(doc, Append(at, k)) = Absent
                     THEN Assign(doc, Append(at, k), Mapping) ELSE doc,
                     Append(at, k), Tail(keys), value)

\* ConfigManager.set, config_manager.py:111-122: the document is edited in
\* place and saved when the edit has not raised
config_set(key, value) ==
    /\ LET call == set_from(config, <<>>, key, value)
       IN /\ config' = call.doc
          /\ config_file' = IF call.raised THEN config_file ELSE call.doc
          /\ response' = [(IF call.raised THEN Failed("set", 0, "TypeError") ELSE Ok("set", 0))
                             EXCEPT !.rows = key, !.data = value]
    /\ UNCHANGED <<now, template_files, environ, storeVars, cacheVars, dbVars, chatVars,
                   conversation_history, deleted>>

\* ConfigManager.get, config_manager.py:98-109
config_get(key, default) ==
    /\ response' = [Ok("get", 0) EXCEPT !.rows = key, !.data = default,
                                        !.listing = {get(config, key, default)}]
    /\ UNCHANGED <<now, hostVars, storeVars, cacheVars, dbVars, chatVars, conversation_history, deleted>>

\* ---------------------------------------------------- Runtime Session Cache
\* agent_manager.py:137-156: the providers _get_model has a branch for
GetModelProviders == {"openai", "anthropic", "gemini"}

\* agent_manager.py:130-156: _get_model returns a model (TRUE) or raises
get_model(agent_config) == agent_config.model_provider \in GetModelProviders

\* agent_manager.py:161-165: the names of tools_map
ToolsMap == {"web_search", "calculator", "file_reader"}

\* a tool loop that stops at the first name tools_map does not know
ToolsUntilUnknown(tools) ==
    LET unknown == {n \in DOMAIN tools : tools[n] \notin ToolsMap}
    IN IF unknown = {} THEN tools
       ELSE SubSeq(tools, 1, (CHOOSE n \in unknown : \A m \in unknown : n <= m) - 1)

\* agent_manager.py:119-125: the tools registered with the Agent: for each
\* requested name in turn, the function of tools_map if there is one
RegisteredTools(tools) == SelectSeq(tools, LAMBDA tool_name : tool_name \in ToolsMap)

\* agent_manager.py:106-128: the Agent built from a definition; serial is its
\* object identity
create_agent_instance(agent_config, serial) ==
    [serial |-> serial,
     system_prompt |-> agent_config.system_prompt,
     model_provider |-> agent_config.model_provider,
     model_name |-> agent_config.model_name,
     temperature |-> agent_config.temperature,
     max_tokens |-> agent_config.max_tokens,
     tools |-> RegisteredTools(agent_config.tools)]

\* chat_with_agent without the test of app.py:222: every send builds a handle
AlwaysNeedsInstance(agent_id) == TRUE

\* app.py:222: the test that sends a request down the build path
NeedsInstance(agent_id) == agent_id \notin DOMAIN active_agents

\* chat_with_agent without the test of app.py:227
EnabledUnchecked(agent_config) == TRUE

\* app.py:227: agent_config.get("enabled", False)
IsEnabled(agent_config) == agent_config.enabled

\* -------------------------------------------------------- Dispatch Facade
\* a chat_with_agent that reserves the cache slot before it builds: a
\* request that fails on the build path leaves an empty handle cached
ChatRejectCaching(p, agent_id, kind) ==
    /\ response' = Failed("chat", agent_id, kind)
    /\ active_agents' = Put(active_agents, agent_id, NoHandle)
    /\ UNCHANGED <<pc, frame, sends, next_handle, built, conversation_history>>

\* the chat request returns without reaching agent.run
ChatReject(p, agent_id, kind) ==
    /\ response' = Failed("chat", agent_id, kind)
    /\ UNCHANGED <<pc, frame, sends, active_agents, next_handle, built, conversation_history>>

\* app.py:233-249: take the handle, record the user message, call agent.run
ChatSuspend(p, agent_id, message, cache) ==
    LET user_message == [role |-> "user", content |-> message, timestamp |-> now, usage |-> NoUsage]
        history == IF agent_id \in DOMAIN conversation_history
                   THEN conversation_history[agent_id] ELSE <<>>
    IN /\ conversation_history' = Put(conversation_history, agent_id, Append(history, user_message))
       /\ frame' = [frame EXCEPT ![p] = [agent_id |-> agent_id, message |-> message,
                                         agent |-> cache[agent_id], user_message |-> user_message]]
       /\ pc' = [pc EXCEPT ![p] = "run"]
       /\ sends' = sends + 1
       /\ UNCHANGED response

\* POST /api/chat, app.py:217-249: from the start of the request to the
\* suspension in agent.run.  Procs are the slots of the requests in flight;
\* a new request takes the first free slot.
chat_with_agent(p, agent_id, message) ==
    /\ pc[p] = "idle"
    /\ \A q \in Procs : q < p => pc[q] # "idle"
    /\ sends < MaxSends
    /\ IF NeedsInstance(agent_id)
       THEN IF agent_id \notin DOMAIN agents_cache
            THEN ChatReject(p, agent_id, "NotFound")
            ELSE IF ~IsEnabled(agents_cache[agent_id])
            THEN ChatReject(p, agent_id, "Disabled")
            ELSE IF ~get_model(agents_cache[agent_id])
            THEN ChatReject(p, agent_id, "UnsupportedProvider")
            ELSE LET agent == create_agent_instance(agents_cache[agent_id], next_handle)
                     cache == Put(active_agents, agent_id, agent)
                 IN /\ active_agents' = cache
                    /\ next_handle' = next_handle + 1
                    /\ built' = [built EXCEPT ![agent_id] = @ + 1]
                    /\ ChatSuspend(p, agent_id, message, cache)
       ELSE /\ ChatSuspend(p, agent_id, message, active_agents)
            /\ UNCHANGED <<active_agents, next_handle, built>>
    /\ UNCHANGED <<now, hostVars, storeVars, dbVars, deleted>>

\* a chat_with_agent that saves the exchange in a finally clause: the failed
\* call is recorded with an empty answer
agent_run_fails_saving(p) ==
    /\ pc[p] = "run"
    /\ pc' = [pc EXCEPT ![p] = "idle"]
    /\ response' = Failed("chat", frame[p].agent_id, "RuntimeInvocationError")
    /\ frame' = [frame EXCEPT ![p] = NoFrame]
    /\ LET saved == save_conversation(db_conn, db_disk, frame[p].agent_id, frame[p].user_message,
                                       [role |-> "assistant", content |-> "", timestamp |-> now,
                                        usage |-> NoUsage], "none")
       IN /\ db_conn' = saved.conn
          /\ db_disk' = saved.disk
    /\ UNCHANGED <<now, hostVars, storeVars, cacheVars, purged, conversation_history, sends, deleted>>

\* a chat_with_agent that calls agent.run again when it raises
agent_run_retries(p) ==
    /\ pc[p] = "run"
    /\ sends < MaxSends
    /\ sends' = sends + 1
    /\ UNCHANGED <<now, hostVars, storeVars, cacheVars, dbVars, conversation_history, deleted,
                   pc, frame, response>>

\* app.py:249-270: agent.run raises; the except clause turns it into a result
agent_run_fails(p) ==
    /\ pc[p] = "run"
    /\ pc' = [pc EXCEPT ![p] = "idle"]
    /\ response' = Failed("chat", frame[p].agent_id, "RuntimeInvocationError")
    /\ frame' = [frame EXCEPT ![p] = NoFrame]
    /\ UNCHANGED <<now, hostVars, storeVars, cacheVars, dbVars, conversation_history, sends, deleted>>

\* app.py:249-270: agent.run returns; the rest of the request runs
agent_run_returns(p, data, usage, fault) ==
    /\ pc[p] = "run"
    /\ pc' = [pc EXCEPT ![p] = "idle"]
    /\ frame' = [frame EXCEPT ![p] = NoFrame]
    /\ UNCHANGED sends
    /\ LET agent_id == frame[p].agent_id
           agent_message == [role |-> "assistant", content |-> data, timestamp |-> now, usage |-> usage]
       IN IF agent_id \notin DOMAIN conversation_history
          THEN \* conversation_history[agent_id] raises KeyError (app.py:258)
               /\ response' = Failed("chat", agent_id, "KeyError")
               /\ UNCHANGED <<conversation_history, db_conn, db_disk>>
          ELSE LET saved == save_conversation(db_conn, db_disk, agent_id,
                                              frame[p].user_message, agent_message, fault)
               IN /\ conversation_history' =
                       [conversation_history EXCEPT ![agent_id] = Append(@, agent_message)]
                  /\ db_conn' = saved.conn
                  /\ db_disk' = saved.disk
                  /\ response' = Response("chat", agent_id, TRUE, "none", data, usage)
    /\ UNCHANGED <<now, hostVars, storeVars, cacheVars, purged, deleted>>

\* ------------------------------------------------------------------- Next
\* requests to the Agent Definition Store; ids are the identities of the run
\* (the requests address no other), drafts are the drafts submitted,
\* oks the outcomes of the file operation (TRUE: it works, FALSE: it raises)
StoreRequests(ids, drafts, oks) ==
    \/ \E draft \in drafts, write_ok \in oks : create_agent(ids, draft, write_ok)
    \/ \E agent_id \in ids, draft \in drafts, write_ok \in oks :
          update_agent(agent_id, draft, write_ok)
    \/ \E agent_id \in ids, unlink_ok \in oks : delete_agent(agent_id, unlink_ok)
    \/ \E agent_id \in ids, write_ok \in oks : toggle_agent(agent_id, write_ok)

\* chat requests; faults are the outcomes of the ledger write
ChatRequests(usages, faults) ==
    \/ \E p \in Procs, agent_id \in AgentIds, message \in Messages : chat_with_agent(p, agent_id, message)
    \/ \E p \in Procs : agent_run_fails(p)
    \/ \E p \in Procs, data \in Responses, usage \in usages, fault \in faults :
          agent_run_returns(p, data, usage, fault)

\* a usable draft and its variations by one field: another prompt, an
\* unsupported provider, disabled
Draft(system_prompt, model_provider, enabled) ==
    [name |-> "A", system_prompt |-> system_prompt, model_provider |-> model_provider,
     model_name |-> "gpt-4", temperature |-> DefaultTemperature, max_tokens |-> DefaultMaxTokens,
     tools |-> <<>>, enabled |-> enabled]
CacheDrafts ==
    {Draft("p1", "openai", TRUE), Draft("p2", "openai", TRUE),
     Draft("p1", "local", TRUE), Draft("p1", "openai", FALSE)}

\* the registry, the runtime cache and the dispatch of chat requests, with
\* storage that works
NextCache ==
    \/ StoreRequests(AgentIds, CacheDrafts, {TRUE})
    \/ ChatRequests({NoUsage}, {"none"})

SpecCache == Init /\ [][NextCache]_vars

\* drafts of agents that can be chatted with
ChatDrafts == {Draft("p1", "openai", TRUE)}

\* the conversation ledger under chat traffic and maintenance, with ledger
\* writes that can fail
NextLedger ==
    \/ \E draft \in ChatDrafts : create_agent(AgentIds, draft, TRUE)
    \/ ChatRequests(Usages, Faults)
    \/ log_system_event
    \/ \E days \in Days : cleanup_old_data(days)

SpecLedger == Init /\ [][NextLedger]_vars

\* the identities of a run that creates one agent more
StoreIds == 1..(MaxAgents + 1)

\* a usable draft, the same with another prompt, and a draft without a name
StoreDrafts ==
    {Draft("p1", "openai", TRUE), Draft("p2", "openai", TRUE),
     [Draft("p1", "openai", TRUE) EXCEPT !.name = ""]}

\* the registry and the templates with file operations that can fail, the
\* clock stopped and no chat traffic
NextStore ==
    \/ StoreRequests(StoreIds, StoreDrafts, BOOLEAN)
    \/ get_agent_templates
    \/ startup_event

SpecStore == Init /\ [][NextStore]_vars

\* the registry under a running clock: two requests can be served within
\* one reading of the clock
NextClock ==
    \/ Tick
    \/ StoreRequests(AgentIds, StoreDrafts, BOOLEAN)

SpecClock == Init /\ [][NextClock]_vars

\* changes of the environment variables named keys
EnvChanges(keys) ==
    \/ \E key \in keys, value \in EnvValues : putenv(key, value)
    \/ \E key \in keys : unsetenv(key)

\* enabled drafts for a provider of the catalog and for an unknown one
ProviderDrafts == {Draft("p1", "openai", TRUE), Draft("p1", "local", TRUE)}

\* the provider catalog and the runtime cache while the credential of one
\* provider is set, emptied and removed; storage works, the clock is stopped
NextProviders ==
    \/ EnvChanges({"OPENAI_API_KEY"})
    \/ get_available_models
    \/ \E draft \in ProviderDrafts : create_agent(AgentIds, draft, TRUE)
    \/ ChatRequests({NoUsage}, {"none"})

SpecProviders == Init /\ [][NextProviders]_vars

\* the conversation ledger under a running clock: exchanges age and are
\* purged; an append can fail after its INSERT
NextRetention ==
    \/ Tick
    \/ \E draft \in ChatDrafts : create_agent(AgentIds, draft, TRUE)
    \/ ChatRequests({NoUsage}, {"none", "stats"})
    \/ \E days \in Days : cleanup_old_data(days)

SpecRetention == Init /\ [][NextRetention]_vars

\* the ledger read back under a running clock: exchanges are appended, in
\* the same reading of the clock or in later ones, by storage that works
NextHistory ==
    \/ Tick
    \/ \E draft \in ChatDrafts : create_agent(AgentIds, draft, TRUE)
    \/ ChatRequests({NoUsage}, {"none"})
    \/ \E agent_id \in AgentIds, limit \in Limits : get_conversation_history(agent_id, limit)

SpecHistory == Init /\ [][NextHistory]_vars

\* definitions deleted while their exchanges stay in the ledger and are read
\* back
NextArchive ==
    \/ Tick
    \/ \E draft \in ChatDrafts : create_agent(AgentIds, draft, TRUE)
    \/ \E agent_id \in AgentIds, unlink_ok \in BOOLEAN : delete_agent(agent_id, unlink_ok)
    \/ ChatRequests({NoUsage}, {"none"})
    \/ \E agent_id \in AgentIds, limit \in Limits : get_conversation_history(agent_id, limit)

SpecArchive == Init /\ [][NextArchive]_vars

\* definitions that differ in their tool lists, built into handles
ToolDrafts == {[Draft("p1", "openai", TRUE) EXCEPT !.tools = tools] : tools \in ToolLists}

NextTools ==
    \/ \E draft \in ToolDrafts : create_agent(AgentIds, draft, TRUE)
    \/ \E agent_id \in AgentIds : delete_agent(agent_id, TRUE)
    \/ ChatRequests({NoUsage}, {"none"})

SpecTools == Init /\ [][NextTools]_vars

\* requests to the store and the cache while chat requests are suspended in
\* agent.run, with storage that works
NextOverlap ==
    \/ StoreRequests(AgentIds, ChatDrafts, {TRUE})
    \/ ChatRequests({NoUsage}, {"none"})

SpecOverlap == Init /\ [][NextOverlap]_vars

\* the settings document read and written by dotted keys
NextConfig ==
    \/ \E key \in KeyPaths, value \in ConfigValues : config_set(key, value)
    \/ \E key \in KeyPaths, default \in ConfigValues : config_get(key, default)

SpecConfig == Init /\ [][NextConfig]_vars

\* the whole service
Next ==
    \/ Tick
    \/ \E key \in KeyPaths, value \in ConfigValues : config_set(key, value)
    \/ \E key \in KeyPaths, default \in ConfigValues : config_get(key, default)
    \/ \E agent_id \in AgentIds, limit \in Limits : get_conversation_history(agent_id, limit)
    \/ startup_event
    \/ get_agent_templates
    \/ get_available_models
    \/ EnvChanges({"OPENAI_API_KEY", "ANTHROPIC_API_KEY", "GEMINI_API_KEY"})
    \/ StoreRequests(AgentIds, AgentConfig, BOOLEAN)
    \/ ChatRequests(Usages, Faults)
    \/ log_system_event
    \/ \E days \in Days : cleanup_old_data(days)

Spec == Init /\ [][Next]_vars

\* ================================================================ claims
\* request p passes from the start of chat_with_agent to agent.run in this step
Dispatched(p) == pc[p] = "idle" /\ pc'[p] = "run"

\* the handle carries the snapshot that this definition would be built into
BuiltFrom(handle, agent_config) ==
    /\ handle.system_prompt = agent_config.system_prompt
    /\ handle.model_provider = agent_config.model_provider
    /\ handle.model_name = agent_config.model_name
    /\ handle.temperature = agent_config.temperature
    /\ handle.max_tokens = agent_config.max_tokens
    /\ handle.tools = RegisteredTools(agent_config.tools)

\* C1: a send dispatched after an update has committed is served by a handle
\* built from the definition as it is stored at that moment, never by a
\* handle built from the definition before the update.
C1_SendUsesCurrentDefinition ==
    [][\A p \in Procs :
          Dispatched(p) =>
             /\ frame'[p].agent_id \in DOMAIN agents_cache
             /\ BuiltFrom(frame'[p].agent, agents_cache[frame'[p].agent_id])]_vars

\* C2: a send to an agent whose stored definition has enabled = FALSE is
\* rejected: it never reaches the runtime handle (and so appends no exchange),
\* also when a handle was cached while the agent was enabled.
C2_DisabledSendRejected ==
    [][\A p \in Procs :
          Dispatched(p) =>
             /\ frame'[p].agent_id \in DOMAIN agents_cache
             /\ agents_cache[frame'[p].agent_id].enabled]_vars

\* the requests suspended in agent.run on this identity
InFlight(agent_id) == {p \in Procs : pc[p] = "run" /\ frame[p].agent_id = agent_id}

\* C3: concurrent sends to one identity construct one handle: the constructor
\* has succeeded once for the identity, every request in flight holds that
\* handle, and it is the handle in the cache.
C3_SingleFlight ==
    \A agent_id \in AgentIds :
       /\ built[agent_id] <= 1
       /\ \A p \in InFlight(agent_id) :
             /\ built[agent_id] = 1
             /\ \A q \in InFlight(agent_id) : frame[q].agent = frame[p].agent
             /\ agent_id \in DOMAIN active_agents => active_agents[agent_id] = frame[p].agent

\* two requests are suspended in agent.run on the same identity
C3_Witness ==
    \E agent_id \in AgentIds : Cardinality(InFlight(agent_id)) >= 2 /\ built[agent_id] = 1

\* committed Exchange rows and the committed conversation count of an identity
Exchanges(db, agent_id) == Len(RowsOf(db, agent_id))
Counted(db, agent_id) ==
    IF agent_id \in DOMAIN db.agent_stats THEN db.agent_stats[agent_id].total_conversations ELSE 0

\* C4: append is atomic in the committed database: every committed Exchange
\* row has its stats delta committed with it (the counts are equal until a
\* purge removes rows, and rows never outnumber the count).
C4_AppendAtomic ==
    \A agent_id \in AgentIds :
       /\ Exchanges(db_disk, agent_id) <= Counted(db_disk, agent_id)
       /\ ~purged => Exchanges(db_disk, agent_id) = Counted(db_disk, agent_id)

\* C5: while no purge has run, stats(id).total_conversations as read through
\* the connection equals the number of Exchange rows read for id, and the
\* stats row is absent exactly when there is no row.
C5_StatsEqualHistory ==
    ~purged =>
       \A agent_id \in AgentIds :
          /\ agent_id \in DOMAIN db_conn.agent_stats <=> Exchanges(db_conn, agent_id) > 0
          /\ Counted(db_conn, agent_id) = Exchanges(db_conn, agent_id)

\* a chat request is rejected before it reaches agent.run in this step
Rejected == pc' = pc /\ response' # response /\ response'.op = "chat"

\* C6: once delete(id) has succeeded the definition and the cached handle of
\* id are gone, no send for id is dispatched to a handle, a send for id is
\* answered NotFound, and a delete of an existing identity succeeds whether
\* or not a handle is cached.
C6_DeleteEvicts ==
    [][/\ \A agent_id \in deleted' :
             agent_id \notin DOMAIN agents_cache' /\ agent_id \notin DOMAIN active_agents'
       /\ \A p \in Procs : Dispatched(p) => frame'[p].agent_id \notin deleted
       /\ Rejected /\ response'.id \in deleted => response'.error = "NotFound"
       /\ (response' # response /\ response'.op = "delete" /\ response'.id \in DOMAIN agents_cache)
             => response'.ok /\ response'.id \in deleted']_vars

\* an identity whose handle was cached has been deleted and a send for it was
\* answered NotFound
C6_Witness ==
    /\ response.op = "chat" /\ response.error = "NotFound"
    /\ response.id \in deleted
    /\ built[response.id] = 1

\* request p comes back from agent.run and returns in this step
Returned(p) == pc[p] = "run" /\ pc'[p] = "idle"

\* C7: a send whose model invocation fails returns a structured failure and
\* leaves the ledger as it was: no Exchange row, no stats change, nothing
\* committed.
C7_FailedRunLeavesNoTrace ==
    [][\A p \in Procs :
          (Returned(p) /\ response'.error = "RuntimeInvocationError") =>
             /\ response' = Failed("chat", frame[p].agent_id, "RuntimeInvocationError")
             /\ db_conn' = db_conn
             /\ db_disk' = db_disk]_vars

\* an invocation failed while the ledger already held an exchange
C7_Witness ==
    /\ response.op = "chat" /\ response.error = "RuntimeInvocationError"
    /\ Len(db_disk.conversations) >= 1

\* C8: a send whose model invocation succeeds returns success and commits
\* one Exchange row for the agent holding the message and the response.
C8_SuccessfulRunAppends ==
    [][\A p \in Procs :
          (Returned(p) /\ response'.error # "RuntimeInvocationError") =>
             /\ response'.ok
             /\ Len(db_disk'.conversations) = Len(db_disk.conversations) + 1
             /\ LET row == db_disk'.conversations[Len(db_disk'.conversations)]
                IN /\ row.agent_id = frame[p].agent_id
                   /\ row.user_message = frame[p].message
                   /\ row.agent_response = response'.data]_vars

\* C9: a send returns success only if its Exchange row is committed: a
\* failed ledger write is surfaced.
C9_FailedAppendSurfaced ==
    [][\A p \in Procs :
          (Returned(p) /\ response'.ok) =>
             /\ Len(db_disk'.conversations) > Len(db_disk.conversations)
             /\ db_disk'.conversations[Len(db_disk'.conversations)].id = db_conn.conv_seq + 1]_vars

\* C10: the constructor runs only for an identity whose stored definition
\* exists and is enabled; a first access to an absent identity is answered
\* NotFound and to a disabled one Disabled, and neither builds a handle.
C10_BuildOnlyEnabled ==
    [][/\ \A agent_id \in AgentIds :
             built'[agent_id] # built[agent_id] =>
                agent_id \in DOMAIN agents_cache /\ agents_cache[agent_id].enabled
       /\ Rejected =>
             /\ response'.id \notin DOMAIN active_agents
             /\ response'.id \notin DOMAIN agents_cache => response'.error = "NotFound"
             /\ (response'.id \in DOMAIN agents_cache /\ ~agents_cache[response'.id].enabled)
                   => response'.error = "Disabled"
             /\ built' = built /\ active_agents' = active_agents /\ next_handle' = next_handle]_vars

\* a first access to a disabled agent was answered Disabled and built nothing
C10_Witness ==
    /\ response.op = "chat" /\ response.error = "Disabled"
    /\ response.id \in DOMAIN agents_cache
    /\ built[response.id] = 0

\* the requests that come back from agent.run in this step and whose append
\* has completed (save_conversation has returned) for this identity
Appending(agent_id) ==
    {p \in Procs : Returned(p) /\ response'.ok /\ frame[p].agent_id = agent_id}

\* C11: appends for one identity that overlap in time lose no stats
\* increment: in every step the committed conversation count and the
\* committed Exchange rows of an identity both grow by the number of appends
\* the step completes for it (one or none), also when the identity had no
\* stats row; so after k appends the count has grown by k and k rows are
\* committed.
C11_NoLostIncrement ==
    [][\A agent_id \in AgentIds :
          /\ Counted(db_disk', agent_id) = Counted(db_disk, agent_id) + Cardinality(Appending(agent_id))
          /\ Exchanges(db_disk', agent_id) = Exchanges(db_disk, agent_id) + Cardinality(Appending(agent_id))]_vars

\* the handler named op answers in this step
Answered(op) == response' # response /\ response'.op = op

\* C12: updates of one identity do not interleave field by field: an update
\* that commits replaces the stored definition, in memory and on disk alike,
\* by its own draft in every mutable field, so after two updates the stored
\* definition is the draft that committed last; an update that fails changes
\* no field of the definition in memory; no other definition is touched.
C12_UpdateIsWhole ==
    [][Answered("update") =>
          LET agent_id == response'.id
          IN /\ response'.ok =>
                   /\ agent_id \in DOMAIN agents_cache' /\ agent_id \in DOMAIN agent_files'
                   /\ DraftOf(agents_cache'[agent_id]) = response'.draft
                   /\ agent_files'[agent_id] = agents_cache'[agent_id]
                   /\ Del(agents_cache', agent_id) = Del(agents_cache, agent_id)
                   /\ Del(agent_files', agent_id) = Del(agent_files, agent_id)
             /\ ~response'.ok => agents_cache' = agents_cache]_vars

\* an update has committed its draft while another definition is stored
\* beside the updated one
C12_Witness ==
    /\ response.op = "update" /\ response.ok
    /\ response.draft = Draft("p2", "openai", TRUE)
    /\ DraftOf(agents_cache[response.id]) = response.draft
    /\ Cardinality(DOMAIN agents_cache) = 2

\* C13: through every update and toggle of an identity its id and created_at
\* stay as they were at creation, and every update or toggle that succeeds
\* and changes the stored definition leaves updated_at strictly greater than
\* it was.
C13_MetadataMonotone ==
    [][\A agent_id \in DOMAIN agents_cache \cap DOMAIN agents_cache' :
          /\ agents_cache'[agent_id].id = agents_cache[agent_id].id
          /\ agents_cache'[agent_id].created_at = agents_cache[agent_id].created_at
          /\ (response'.ok /\ agents_cache'[agent_id] # agents_cache[agent_id]) =>
                agents_cache'[agent_id].updated_at > agents_cache[agent_id].updated_at]_vars

\* C14: create returns an identity that was never present before; the
\* definition then stored under it, in memory and on disk, equals the draft
\* in every field, with id, created_at and updated_at added; every definition
\* stored before is unchanged.
C14_CreateStoresDraft ==
    [][(Answered("create") /\ response'.ok) =>
          LET agent_id == response'.id
          IN /\ agent_id \notin DOMAIN agents_cache \cup DOMAIN agent_files \cup deleted
             /\ agent_id \in DOMAIN agents_cache'
             /\ agents_cache'[agent_id] = Definition(response'.draft, agent_id, now, now)
             /\ agents_cache' = Put(agents_cache, agent_id, agents_cache'[agent_id])
             /\ agent_files' = Put(agent_files, agent_id, agents_cache'[agent_id])]_vars

\* a second agent was created beside the first and is stored as its draft
C14_Witness ==
    /\ response.op = "create" /\ response.ok
    /\ response.draft = Draft("p2", "openai", TRUE)
    /\ DOMAIN agents_cache = {1, response.id} /\ response.id # 1
    /\ DraftOf(agents_cache[response.id]) = response.draft
    /\ DraftOf(agents_cache[1]) # response.draft

\* the drafts with a name, a prompt, a provider and a model, a temperature
\* within [0, 2] (in tenths) and a positive token limit
ValidDraft(draft) ==
    /\ draft.name # "" /\ draft.system_prompt # ""
    /\ draft.model_provider # "" /\ draft.model_name # ""
    /\ draft.temperature \in 0..20
    /\ draft.max_tokens > 0

\* C15: create stores a draft only if it is valid: a draft with an empty
\* name, prompt, provider or model, a temperature outside [0, 2] or a token
\* limit that is not positive is rejected and nothing is stored.
C15_CreateValidates ==
    [][Answered("create") =>
          /\ response'.ok => ValidDraft(response'.draft)
          /\ ~response'.ok => agents_cache' = agents_cache /\ agent_files' = agent_files]_vars

\* C16: an update or a delete of an identity that is not stored fails with
\* NotFound and leaves the definitions in memory and on disk, the cached
\* handles, the histories and the ledger as they were; in particular an
\* update of an absent identity creates no definition.
C16_AbsentIsNotFound ==
    [][((Answered("update") \/ Answered("delete")) /\ response'.id \notin DOMAIN agents_cache) =>
          /\ response' = Failed(response'.op, response'.id, "NotFound")
          /\ UNCHANGED <<agents_cache, agent_files, active_agents, conversation_history,
                         db_conn, db_disk>>]_vars

\* an update of a deleted identity was answered NotFound while the ledger
\* holds an exchange and a request is still in flight
C16_Witness ==
    /\ response = Failed("update", response.id, "NotFound")
    /\ response.id \in deleted
    /\ Len(db_disk.conversations) >= 1
    /\ \E p \in Procs : pc[p] = "run"

\* C17: when a create, an update or a delete has returned success, the
\* definitions on disk are the definitions in memory: a fresh instance would
\* load exactly what get and list return.
C17_DurableEqualsMemory ==
    (response.ok /\ response.op \in {"create", "update", "delete"}) =>
       load_agents(agent_files) = agents_cache

\* the names of the built-in templates
BuiltIn == {DefaultTemplates[n] : n \in DOMAIN DefaultTemplates}

\* C18: seeding the templates is idempotent: every call of the listing
\* returns, and returns the four built-in templates, each once; the call on
\* the empty store seeds them and no later call changes the store, which
\* holds those four and nothing else.
C18_SeedingIdempotent ==
    [][/\ template_files # EmptyDict => template_files' = template_files
       /\ response'.op = "templates" =>
             /\ response'.ok
             /\ Cardinality(response'.listing) = Len(DefaultTemplates)
             /\ {t.name : t \in response'.listing} = BuiltIn
             /\ Cardinality(DOMAIN template_files') = Len(DefaultTemplates)
             /\ {template_files'[n].name : n \in DOMAIN template_files'} = BuiltIn]_vars

\* the listing was answered from the seeded store while agents are stored
C18_Witness ==
    /\ response.op = "templates" /\ response.ok
    /\ Cardinality(response.listing) = Len(DefaultTemplates)
    /\ DOMAIN template_files = DOMAIN DefaultTemplates
    /\ agents_cache # EmptyDict

\* the providers whose catalog entry declares a credential key that resolves
\* to a non-empty value in this environment
Credentialed(providers, env) ==
    {provider \in DOMAIN providers :
        /\ "api_key_env" \in DOMAIN providers[provider]
        /\ providers[provider].api_key_env \in DOMAIN env
        /\ env[providers[provider].api_key_env] # ""}

\* C19: a handle is built on first access only for a provider that is in the
\* available set at that time; a first access to an enabled agent whose
\* provider is outside the set (unknown to the catalog, or its credential
\* absent) is answered UnsupportedProvider.
C19_BuildOnlyAvailable ==
    [][/\ \A agent_id \in AgentIds :
             built'[agent_id] # built[agent_id] =>
                agents_cache[agent_id].model_provider \in Credentialed(DefaultProviders, environ)
       /\ (/\ Rejected
           /\ response'.id \in DOMAIN agents_cache
           /\ agents_cache[response'.id].enabled
           /\ agents_cache[response'.id].model_provider \notin Credentialed(DefaultProviders, environ))
             => response'.error = "UnsupportedProvider"]_vars

\* C20: the listing of available providers holds a provider exactly if its
\* catalog entry declares a credential key and the key resolves, at the time
\* of the call, to a non-empty value: unset and empty both exclude it.
C20_AvailableIffCredential ==
    [][Answered("models") =>
          response'.listing = Credentialed(DefaultProviders, environ)]_vars

\* the rows of a table that are not older than the cutoff
NotOlder(rows, stamp(_), cutoff) == SelectSeq(rows, LAMBDA r : ~(stamp(r) < cutoff))
CreatedAt(r) == r.created_at
Timestamp(r) == r.timestamp

\* this step is a purge that changes the database
Purging == response'.op = "cleanup" /\ (db_conn' # db_conn \/ db_disk' # db_disk)

\* C21: a purge removes the Exchange rows and the system-log rows older than
\* its cutoff and no other row, and leaves every AgentStats row as it was, in
\* the connection's view and in the committed database; so after a purge the
\* committed conversation count of an identity is never below the number of
\* its committed Exchange rows.
C21_PurgeFrame ==
    [][/\ Purging =>
             /\ \E days \in Days :
                   /\ db_conn'.conversations = NotOlder(db_conn.conversations, CreatedAt, now - days)
                   /\ db_conn'.system_logs = NotOlder(db_conn.system_logs, Timestamp, now - days)
             /\ db_conn'.agent_stats = db_conn.agent_stats
             /\ db_disk'.agent_stats = db_disk.agent_stats
       /\ response'.op = "cleanup" =>
             \A agent_id \in AgentIds : Exchanges(db_disk', agent_id) <= Counted(db_disk', agent_id)]_vars

\* C22: the history of an identity holds at most limit exchanges, all of the
\* identity, and they are its most recently appended ones, newest first:
\* entry i is the i-th last row appended for the identity, also when rows
\* were appended within one reading of the clock.
C22_HistoryNewestFirst ==
    [][Answered("history") =>
          LET appended == RowsOf(db_conn, response'.id)
              rows == response'.rows
          IN /\ \E limit \in Limits :
                   Len(rows) = IF limit < Len(appended) THEN limit ELSE Len(appended)
             /\ \A i \in DOMAIN rows :
                   rows[i] = HistoryEntry(appended[Len(appended) - i + 1])]_vars

\* request p comes back from agent.run in this step and its append succeeds:
\* its Exchange row is committed by the step
Appended(p) ==
    /\ Returned(p) /\ response'.ok
    /\ Len(db_disk'.conversations) > Len(db_disk.conversations)
    /\ db_disk'.conversations[Len(db_disk'.conversations)].id = db_conn.conv_seq + 1

\* the committed token total of an identity
TokensUsed(db, agent_id) ==
    IF agent_id \in DOMAIN db.agent_stats THEN db.agent_stats[agent_id].total_tokens_used ELSE 0

\* C23: every successful append adds the total tokens of its usage (0 when
\* the usage is absent) to the committed total_tokens_used of its identity,
\* so the total is the sum over the successful appends; the first
\* successful append of an identity creates its stats row with
\* total_conversations = 1.
C23_TokensAreSum ==
    [][\A p \in Procs :
          Appended(p) =>
             LET agent_id == frame[p].agent_id
                 tokens_used == IF response'.usage.present THEN response'.usage.total_tokens ELSE 0
             IN /\ TokensUsed(db_disk', agent_id) = TokensUsed(db_disk, agent_id) + tokens_used
                /\ agent_id \notin DOMAIN db_disk.agent_stats =>
                      /\ agent_id \in DOMAIN db_disk'.agent_stats
                      /\ db_disk'.agent_stats[agent_id].total_conversations = 1]_vars

\* the entries of a history are distinct rows of the identity in this database
HistoryOf(rows, db, agent_id) ==
    /\ \A i \in DOMAIN rows :
          \E j \in DOMAIN RowsOf(db, agent_id) : rows[i] = HistoryEntry(RowsOf(db, agent_id)[j])
    /\ \A i, j \in DOMAIN rows : rows[i].id = rows[j].id => i = j

\* C24: delete leaves the durable ledger untouched: the step changes no
\* Exchange row and no stats row, the rows of a deleted identity stay, and a
\* history read of a deleted identity still returns its exchanges (as many
\* as the limit allows).
C24_DeleteKeepsLedger ==
    [][/\ (Answered("delete") \/ deleted' # deleted) => db_conn' = db_conn /\ db_disk' = db_disk
       /\ \A agent_id \in deleted' :
             /\ Exchanges(db_disk', agent_id) >= Exchanges(db_disk, agent_id)
             /\ Counted(db_disk', agent_id) >= Counted(db_disk, agent_id)
       /\ (Answered("history") /\ response'.id \in deleted) =>
             /\ HistoryOf(response'.rows, db_disk, response'.id)
             /\ \E limit \in Limits :
                   Len(response'.rows) = IF limit < Exchanges(db_disk, response'.id)
                                         THEN limit ELSE Exchanges(db_disk, response'.id)]_vars

\* the history of a deleted identity was read and holds an exchange, and the
\* stats row of the identity is still there
C24_Witness ==
    /\ response.op = "history" /\ response.id \in deleted
    /\ Len(response.rows) >= 1
    /\ Counted(db_disk, response.id) >= 1

\* C25: a send that fails before the model is invoked (NotFound, Disabled,
\* UnsupportedProvider) leaves no cache entry and no conversation list for
\* its identity, builds nothing and changes neither the ledger nor the
\* stats; and a send dispatched for an identity without a cache entry (as
\* after such a failure, once its cause is fixed) builds a fresh handle from
\* the stored definition and caches it.
C25_FailedBuildLeavesNothing ==
    [][/\ Rejected =>
             /\ response'.error \in {"NotFound", "Disabled", "UnsupportedProvider"}
             /\ response'.id \notin DOMAIN active_agents'
             /\ active_agents' = active_agents
             /\ conversation_history' = conversation_history
             /\ next_handle' = next_handle /\ built' = built
             /\ db_conn' = db_conn /\ db_disk' = db_disk
       /\ \A p \in Procs :
             (Dispatched(p) /\ frame'[p].agent_id \notin DOMAIN active_agents) =>
                LET agent_id == frame'[p].agent_id
                IN /\ built'[agent_id] = built[agent_id] + 1
                   /\ frame'[p].agent.serial = next_handle /\ next_handle' = next_handle + 1
                   /\ \A other \in DOMAIN active_agents : active_agents[other].serial < next_handle
                   /\ BuiltFrom(frame'[p].agent, agents_cache[agent_id])
                   /\ active_agents'[agent_id] = frame'[p].agent]_vars

\* a send for a stored, enabled definition was rejected for its unsupported
\* provider, and nothing is cached or built for the identity
C25_Witness ==
    /\ response = Failed("chat", response.id, "UnsupportedProvider")
    /\ response.id \in DOMAIN agents_cache /\ agents_cache[response.id].enabled
    /\ response.id \notin DOMAIN active_agents
    /\ built[response.id] = 0

\* C26: an update or a toggle whose durable write fails reports the failure
\* and leaves the definition that get returns exactly as it was before the
\* call, enabled and updated_at included.
C26_FailedWriteChangesNothing ==
    [][(/\ response' # response
        /\ response'.op \in {"update", "toggle"}
        /\ response'.error = "StorageError") =>
          /\ ~response'.ok
          /\ agents_cache' = agents_cache]_vars

\* the positions of the requested names that the registry knows
Known(requested) == {n \in DOMAIN requested : requested[n] \in ToolsMap}

\* tools are exactly the requested names that the registry knows, in the
\* requested order
RequestedInOrder(tools, requested) ==
    /\ Len(tools) = Cardinality(Known(requested))
    /\ \A n \in Known(requested) :
          tools[Cardinality({m \in Known(requested) : m <= n})] = requested[n]

\* C27: handle construction succeeds for any tool list: a send that takes
\* the build path for a stored, enabled definition with a supported provider
\* is not rejected, whatever its tool list; the handle built carries exactly
\* the requested tools that are in the registry, in the requested order, and
\* names outside the registry are dropped.
C27_UnknownToolsDropped ==
    [][/\ Rejected =>
             \/ response'.id \notin DOMAIN agents_cache
             \/ ~agents_cache[response'.id].enabled
             \/ ~get_model(agents_cache[response'.id])
       /\ \A agent_id \in AgentIds :
             built'[agent_id] # built[agent_id] =>
                /\ agent_id \in DOMAIN active_agents'
                /\ RequestedInOrder(active_agents'[agent_id].tools, agents_cache[agent_id].tools)
                /\ \A i \in DOMAIN active_agents'[agent_id].tools :
                      active_agents'[agent_id].tools[i] \in {"web_search", "calculator", "file_reader"}]_vars

\* a handle was built from a list with an unknown name between two registry
\* tools and carries the two, in order
C27_Witness ==
    \E agent_id \in DOMAIN active_agents :
       /\ agent_id \in DOMAIN agents_cache
       /\ agents_cache[agent_id].tools = <<"file_reader", "shell", "web_search">>
       /\ active_agents[agent_id].tools = <<"file_reader", "web_search">>
       /\ built[agent_id] = 1

\* every Exchange row of before is there after, field for field, unless the
\* step is a purge and the row is older than a cutoff the purge can have;
\* and no row of after carries the id of a row of before with other fields
RowsKept(before, after) ==
    \A i \in DOMAIN before :
       /\ \/ \E j \in DOMAIN after : after[j] = before[i]
          \/ /\ response'.op = "cleanup"
             /\ \E days \in Days : before[i].created_at < now - days
       /\ \A j \in DOMAIN after : after[j].id = before[i].id => after[j] = before[i]

\* C28: Exchange rows are immutable: no step (append, purge, create, or any
\* other) changes a field of a row, in the connection or in the committed
\* database, and a row disappears only in a purge, and only when it is older
\* than the purge's cutoff.
C28_ExchangesImmutable ==
    [][/\ RowsKept(db_conn.conversations, db_conn'.conversations)
       /\ RowsKept(db_disk.conversations, db_disk'.conversations)]_vars

\* a purge has removed the first exchange and kept the second, younger one
C28_Witness ==
    /\ purged
    /\ db_disk.conv_seq = 2
    /\ Len(db_disk.conversations) = 1
    /\ db_disk.conversations[1].id = 2

C30_InvokedAtMostOnce ==
    [][/\ sends' = sends + Cardinality({p \in Procs : Dispatched(p)})
       /\ Cardinality({p \in Procs : Dispatched(p)}) <= 1
       /\ \A p \in Procs :
             pc[p] = "run" =>
                \/ pc'[p] = "run" /\ frame'[p] = frame[p]
                \/ /\ Returned(p)
                   /\ sends' = sends
                   /\ frame'[p] = NoFrame
                   /\ response'.op = "chat" /\ response'.id = frame[p].agent_id
                   /\ ~response'.ok => response'.error \in {"RuntimeInvocationError", "KeyError"}]_vars

\* the only send so far has failed in its invocation and has returned the
\* failure: one invocation, no request in flight
C30_Witness ==
    /\ response.op = "chat" /\ response.error = "RuntimeInvocationError"
    /\ sends = 1
    /\ \A p \in Procs : pc[p] = "idle"

\* C31: the in-memory conversation history of every identity is a sequence
\* of complete pairs, a user message immediately followed by an assistant
\* message; the messages of requests still suspended in agent.run are not
\* held against it: the property is required once no request of the
\* identity is in flight.
C31_HistoryInPairs ==
    \A agent_id \in DOMAIN conversation_history :
       InFlight(agent_id) = {} =>
          LET history == conversation_history[agent_id]
          IN /\ Len(history) % 2 = 0
             /\ \A i \in DOMAIN history :
                   history[i].role = IF i % 2 = 1 THEN "user" ELSE "assistant"

\* C32: every identity that has a cached runtime handle has a definition in
\* the store, in memory and on disk, whatever creates, updates, toggles,
\* deletes and sends have run and however they interleave.
C32_CachedImpliesStored ==
    \A agent_id \in DOMAIN active_agents :
       agent_id \in DOMAIN agents_cache /\ agent_id \in DOMAIN agent_files

\* a handle is cached for an identity whose definition was disabled while a
\* send for it is suspended in agent.run
C32_Witness ==
    \E agent_id \in DOMAIN active_agents :
       /\ agent_id \in DOMAIN agents_cache
       /\ ~agents_cache[agent_id].enabled
       /\ InFlight(agent_id) # {}

\* the definition after differs from the definition before in enabled,
\* which is negated, and in nothing else but updated_at
Toggled(before, after) ==
    /\ after.enabled = ~before.enabled
    /\ [after EXCEPT !.enabled = before.enabled, !.updated_at = before.updated_at] = before

\* C33: a toggle of an existing identity negates enabled in the stored
\* definition and leaves every other field but updated_at as it was (so a
\* second toggle brings the first value of enabled back), no other
\* definition changes, and a toggle that succeeds leaves the same definition
\* on disk; a toggle of an absent identity reports NotFound and leaves the
\* store without a definition for it.
C33_ToggleNegates ==
    [][/\ (response'.op = "toggle" /\ response'.id \in DOMAIN agents_cache) =>
             LET agent_id == response'.id
             IN \/ UNCHANGED <<agents_cache, agent_files, response>>
                \/ /\ DOMAIN agents_cache' = DOMAIN agents_cache
                   /\ Toggled(agents_cache[agent_id], agents_cache'[agent_id])
                   /\ \A other \in DOMAIN agents_cache \ {agent_id} :
                         agents_cache'[other] = agents_cache[other]
                   /\ response'.ok => agent_files' = Put(agent_files, agent_id, agents_cache'[agent_id])
                   /\ ~response'.ok => response'.error = "StorageError" /\ agent_files' = agent_files
       /\ (response'.op = "toggle" /\ response'.id \notin DOMAIN agents_cache) =>
             /\ response' = Failed("toggle", response'.id, "NotFound")
             /\ agents_cache' = agents_cache /\ agent_files' = agent_files]_vars

\* the second toggle of an identity has succeeded: the definition, created
\* enabled, is enabled again, in memory and on disk, and another definition
\* is stored beside it
C33_Witness ==
    /\ response = Ok("toggle", response.id)
    /\ response.id \in DOMAIN agents_cache
    /\ agents_cache[response.id].enabled
    /\ agent_files[response.id] = agents_cache[response.id]
    /\ Cardinality(DOMAIN agents_cache) = 2

\* one key is a prefix of the other: the keys lie on one path of the document
OnPath(key, other) ==
    \/ Len(key) <= Len(other) /\ SubSeq(other, 1, Len(key)) = key
    \/ Len(other) <= Len(key) /\ SubSeq(key, 1, Len(other)) = other

\* C34: set(key, v) succeeds for every dotted key, also when an
\* intermediate segment is missing or holds a value that is not a mapping,
\* and get(key) then returns v whatever the default; set leaves every key
\* that is not on the path as it was; get of a key with a missing segment
\* returns the default.
C34_SetThenGet ==
    [][/\ (response'.op = "set" /\ (response' # response \/ config' # config)) =>
             LET key == response'.rows
             IN /\ response'.ok
                /\ \A default \in ConfigValues : get(config', key, default) = Leaf(response'.data)
                /\ \A other \in KeyPaths : ~OnPath(key, other) => config'[other] = config[other]
       /\ Answered("get") =>
             LET key == response'.rows
             IN (\E n \in 1..Len(key) : config[SubSeq(key, 1, n)] = Absent) =>
                   response'.listing = {Leaf(response'.data)}]_vars

====
